---- MODULE Spec2Model ----
(***************************************************************************)
(* Boundary classification and depth/volume estimation of mining           *)
(* footprints (src/src/detection, src/src/depth_volume, src/main.py,       *)
(* src/api.py).                                                            *)
(*                                                                         *)
(* Geometry.  A footprint is an axis-aligned rectangle.  Its coordinates   *)
(* are kept DOUBLED (the integer c stands for the coordinate c/2), so that *)
(* footprints with non-integer bounds (x.5) exist.  A raster cell (y, x)   *)
(* is the point (x, y), i.e. the doubled point (2x, 2y).                   *)
(*                                                                         *)
(* Numbers.  Python floats are idealised as exact rationals: a rational is *)
(* a record [num, den] with den > 0.                                       *)
(***************************************************************************)
EXTENDS Integers, Sequences, FiniteSets, TLC

\* ------------------------------------------------------------------ bounds
\* Raster shape (dem.shape = (DemRows, DemCols)).
DemRows == 3
DemCols == 3
\* buffer_distance of estimate_reference_elevation, in cells.
BufferDistance == 1
\* Largest side of a footprint, in half cells.
MaxSide == 5

\* Footprints reach Margin cells beyond the raster on every side, far enough
\* for the buffered bounding box to lie wholly outside of it.
Margin == BufferDistance + 2
CoordLo == -(2 * Margin)
CoordHiX == 2 * (DemCols + Margin)
CoordHiY == 2 * (DemRows + Margin)

\* ------------------------------------------------------------- arithmetic
Max(a, b) == IF a >= b THEN a ELSE b
Min(a, b) == IF a <= b THEN a ELSE b

\* Python's int() of the doubled coordinate c: truncation towards zero of c/2.
PyInt(c) == IF c >= 0 THEN c \div 2 ELSE -((-c) \div 2)

\* range(lo, hi)
PyRange(lo, hi) == lo .. (hi - 1)

\* The index set of the slice a[start:stop] of an axis of length n
\* (a negative index counts from the end, then both are clamped to 0..n).
SliceIndex(i, n) == IF i < 0 THEN Max(0, i + n) ELSE Min(i, n)
PySlice(start, stop, n) == SliceIndex(start, n) .. (SliceIndex(stop, n) - 1)

RECURSIVE Gcd(_, _)
Gcd(a, b) == IF b = 0 THEN a ELSE Gcd(b, a % b)
Abs(a) == IF a < 0 THEN -a ELSE a

\* The rational n/d in lowest terms.
Rat(n, d) ==
    LET g == Gcd(Abs(n), d)
    IN  [num |-> n \div g, den |-> d \div g]
RatAdd(a, b) == Rat(a.num * b.den + b.num * a.den, a.den * b.den)
RatMul(a, b) == Rat(a.num * b.num, a.den * b.den)
RatEq(a, b) == a.num * b.den = b.num * a.den
RatLeq(a, b) == a.num * b.den <= b.num * a.den

\* --------------------------------------------------------------- geometry
Rect(x0, y0, x1, y1) == [x0 |-> x0, y0 |-> y0, x1 |-> x1, y1 |-> y1]

\* polygon.bounds
Bounds(p) == [minx |-> p.x0, miny |-> p.y0, maxx |-> p.x1, maxy |-> p.y1]

\* polygon.buffer(d).difference(polygon).bounds: the buffer reaches d beyond
\* the polygon on every side.
BufferZoneBounds(p, d) ==
    [minx |-> p.x0 - 2 * d, miny |-> p.y0 - 2 * d,
     maxx |-> p.x1 + 2 * d, maxy |-> p.y1 + 2 * d]

\* polygon.contains(Point(x, y)): the point lies in the interior of the polygon.
Contains(p, x, y) == p.x0 < 2 * x /\ 2 * x < p.x1 /\ p.y0 < 2 * y /\ 2 * y < p.y1

\* The point lies in the closed polygon (interior or boundary).
Covers(p, x, y) == p.x0 <= 2 * x /\ 2 * x <= p.x1 /\ p.y0 <= 2 * y /\ 2 * y <= p.y1

\* Squared (doubled) distance from the point (x, y) to the closed polygon.
Dist2(p, x, y) ==
    LET dx == Max(0, Max(p.x0 - 2 * x, 2 * x - p.x1))
        dy == Max(0, Max(p.y0 - 2 * y, 2 * y - p.y1))
    IN  dx * dx + dy * dy

\* buffer_zone.contains(Point(x, y)), buffer_zone = polygon.buffer(d) minus polygon:
\* the interior of the ring, which has neither the polygon nor its boundary.
BufferZoneContains(p, d, x, y) ==
    /\ Dist2(p, x, y) < (2 * d) * (2 * d)
    /\ ~Covers(p, x, y)

\* ------------------------------------------------------------------ raster
Cells == (0 .. DemRows - 1) \X (0 .. DemCols - 1)

\* The clamped scan window of both estimate_reference_elevation and
\* calculate_depth_map, from the bounds b of a geometry.
Window(b) ==
    [minx |-> PyInt(Max(0, b.minx)), miny |-> PyInt(Max(0, b.miny)),
     maxx |-> PyInt(Min(2 * DemCols, b.maxx)), maxy |-> PyInt(Min(2 * DemRows, b.maxy))]

\* The cells (y, x) the two nested range() loops visit.
Scanned(w) == PyRange(w.miny, w.maxy) \X PyRange(w.minx, w.maxx)

\* "if elevation > 0:  # Exclude nodata values"
IsValidElevation(e) == e > 0

\* ------------------------------------------- reference elevation estimator
RECURSIVE SumOver(_, _)
\* Sum of the elevations d[c] of the cells c of S.
SumOver(d, S) ==
    IF S = {} THEN 0
    ELSE LET c == CHOOSE c \in S : TRUE IN d[c] + SumOver(d, S \ {c})

RECURSIVE SortedValues(_, _)
\* The elevations of the cells of S in ascending order.
SortedValues(d, S) ==
    IF S = {} THEN << >>
    ELSE LET c == CHOOSE c \in S : \A e \in S : d[c] <= d[e]
         IN  <<d[c]>> \o SortedValues(d, S \ {c})

\* The cells whose elevation the sampling loop appends to `elevations`.
RingSample(d, p, bd) ==
    LET w == Window(BufferZoneBounds(p, bd))
    IN  {c \in Scanned(w) :
            BufferZoneContains(p, bd, c[2], c[1]) /\ IsValidElevation(d[c])}

\* The fallback: crop = dem[miny:maxy, minx:maxx]; crop[crop > 0].
CropSample(d, p, bd) ==
    LET w == Window(BufferZoneBounds(p, bd))
    IN  {c \in PySlice(w.miny, w.maxy, DemRows) \X PySlice(w.minx, w.maxx, DemCols) :
            IsValidElevation(d[c])}

\* `elevations` when the method is applied.
Elevations(d, p, bd) ==
    IF RingSample(d, p, bd) # {} THEN RingSample(d, p, bd) ELSE CropSample(d, p, bd)

\* np.mean
Mean(d, S) == Rat(SumOver(d, S), Cardinality(S))

\* np.median: the middle value, or the mean of the two middle values.
Median(d, S) ==
    LET v == SortedValues(d, S)
        n == Len(v)
    IN  IF n % 2 = 1 THEN Rat(v[(n + 1) \div 2], 1)
        ELSE Rat(v[n \div 2] + v[n \div 2 + 1], 2)

\* np.max
Maximum(d, S) == Rat(CHOOSE m \in {d[c] : c \in S} : \A c \in S : d[c] <= m, 1)

\* np.percentile(elevations, 75): linear interpolation at index 0.75 * (n - 1).
Percentile75(d, S) ==
    LET v == SortedValues(d, S)
        n == Len(v)
        lo == (3 * (n - 1)) \div 4
        r == (3 * (n - 1)) % 4
    IN  IF r = 0 THEN Rat(v[lo + 1], 1)
        ELSE Rat(4 * v[lo + 1] + r * (v[lo + 2] - v[lo + 1]), 4)

Methods == {"mean", "median", "max", "percentile", "other"}

\* "Calculate reference based on method": an unknown method is the mean.
Aggregate(d, S, method) ==
    IF method = "mean" THEN Mean(d, S)
    ELSE IF method = "median" THEN Median(d, S)
    ELSE IF method = "max" THEN Maximum(d, S)
    ELSE IF method = "percentile" THEN Percentile75(d, S)
    ELSE Mean(d, S)

\* estimate_reference_elevation(polygon, method, buffer_distance)
EstimateReferenceElevation(d, p, method, bd) ==
    LET S == Elevations(d, p, bd)
    IN  IF S = {} THEN Rat(0, 1) ELSE Aggregate(d, S, method)

\* -------------------------------------------------------- depth map builder
\* np.zeros((maxy - miny, maxx - minx)) raises ValueError on a negative dimension.
DepthMapRaises(p) ==
    LET w == Window(Bounds(p))
    IN  w.maxy - w.miny < 0 \/ w.maxx - w.minx < 0

\* DepthCell without the clamp "max(0, depth)".
DepthCellUnclamped(d, p, ref, y, x) ==
    IF Contains(p, x, y) THEN ref.num - d[<<y, x>>] * ref.den ELSE 0

\* depth_map[y - miny, x - minx] of calculate_depth_map, as a numerator over
\* the denominator of the reference elevation.
DepthCell(d, p, ref, y, x) ==
    IF Contains(p, x, y) THEN Max(0, ref.num - d[<<y, x>>] * ref.den) ELSE 0

\* calculate_depth_map(polygon, reference_elevation): the grid, indexed from 0,
\* with its window; cells[<<i, j>>] / den is the depth of cell (miny + i, minx + j).
CalculateDepthMap(d, p, ref) ==
    LET w == Window(Bounds(p))
    IN  IF DepthMapRaises(p) THEN [raised |-> "ValueError"]
        ELSE [raised |-> "no",
              h |-> w.maxy - w.miny, w |-> w.maxx - w.minx,
              miny |-> w.miny, minx |-> w.minx,
              den |-> ref.den,
              cells |-> [c \in (0 .. w.maxy - w.miny - 1) \X (0 .. w.maxx - w.minx - 1) |->
                            DepthCell(d, p, ref, w.miny + c[1], w.minx + c[2])]]

\* ------------------------------------------------------- volume integrator
\* pixel_size of the calculator of calculate_depth_volume (30.0, the default).
PixelSize == 30

RECURSIVE SumCells(_, _)
\* np.sum over the cells S of a grid g.
SumCells(g, S) ==
    IF S = {} THEN 0
    ELSE LET c == CHOOSE c \in S : TRUE IN g[c] + SumCells(g, S \ {c})

\* VolumeTrapezoidal with the pixel size for the pixel area.
VolumeTrapezoidalLinear(dm, ps) ==
    Rat(SumCells(dm.cells, DOMAIN dm.cells) * ps.num, dm.den * ps.den)

\* calculate_volume_trapezoidal: np.sum(depth_map) * self.pixel_size ** 2.
VolumeTrapezoidal(dm, ps) ==
    Rat(SumCells(dm.cells, DOMAIN dm.cells) * ps.num * ps.num, dm.den * ps.den * ps.den)

\* SimpsonWeight with the sign of the weight 4 of a middle row flipped.
SimpsonWeightAlternating(a, b) == (IF a = 1 THEN -4 ELSE 1) * (IF b = 1 THEN 4 ELSE 1)

\* "Simpson's 2D weights"
SimpsonWeight(a, b) == (IF a = 1 THEN 4 ELSE 1) * (IF b = 1 THEN 4 ELSE 1)

\* np.sum(block * weights) of the block depth_map[i:i+3, j:j+3].
BlockVolume(dm, i, j) ==
    LET W9 == (0 .. 2) \X (0 .. 2)
        weighted == [c \in W9 |-> dm.cells[<<i + c[1], j + c[2]>>] * SimpsonWeight(c[1], c[2])]
    IN  SumCells(weighted, W9)

\* The corners (i, j) of the blocks calculate_volume_simpsons adds up, for a grid
\* of h rows and w columns: h and w trimmed to odd, i and j even with a full block.
SimpsonBlocks(h, w) ==
    LET ht == IF h % 2 = 0 THEN h - 1 ELSE h
        wt == IF w % 2 = 0 THEN w - 1 ELSE w
    IN  {c \in (0 .. ht - 1) \X (0 .. wt - 1) :
            c[1] % 2 = 0 /\ c[2] % 2 = 0 /\ c[1] + 2 < ht /\ c[2] + 2 < wt}

\* The sum of the block volumes times pixel_size ** 2 / 9.
SimpsonSum(dm, ps) ==
    LET B == SimpsonBlocks(dm.h, dm.w)
        block == [c \in B |-> BlockVolume(dm, c[1], c[2])]
    IN  Rat(SumCells(block, B) * ps.num * ps.num, 9 * dm.den * ps.den * ps.den)

\* VolumeSimpsons without the fallback for a grid that is narrow on one axis only.
VolumeSimpsonsNarrow(dm, ps) ==
    IF dm.h < 3 /\ dm.w < 3 THEN VolumeTrapezoidal(dm, ps) ELSE SimpsonSum(dm, ps)

\* calculate_volume_simpsons
VolumeSimpsons(dm, ps) ==
    IF dm.h < 3 \/ dm.w < 3 THEN VolumeTrapezoidal(dm, ps) ELSE SimpsonSum(dm, ps)

\* np.random.randint(0, h) raises ValueError (low >= high) on an empty axis.
MonteCarloRaises(dm) == dm.h = 0 \/ dm.w = 0

\* calculate_volume_montecarlo for the sequence of cells the random source drew:
\* avg_depth * (h * w * pixel_size ** 2).
VolumeMonteCarlo(dm, ps, draws) ==
    LET total == SumCells([k \in DOMAIN draws |-> dm.cells[draws[k]]], DOMAIN draws)
    IN  Rat(total * dm.h * dm.w * ps.num * ps.num, Len(draws) * dm.den * ps.den * ps.den)

VolumeMethods == {"simpsons", "trapezoidal", "montecarlo", "other"}

\* The volume branch of process_mining_polygon: an unknown method is Simpson's.
Volume(dm, ps, method, draws) ==
    IF method = "trapezoidal" THEN VolumeTrapezoidal(dm, ps)
    ELSE IF method = "montecarlo" THEN VolumeMonteCarlo(dm, ps, draws)
    ELSE VolumeSimpsons(dm, ps)

\* ----------------------------------------------------------- depth statistics
\* ValidDepths with ">= 0" for "> 0": every cell of the grid.
ValidDepthsAll(dm) == {c \in DOMAIN dm.cells : dm.cells[c] >= 0}

\* valid_depths = depth_map[depth_map > 0]
ValidDepths(dm) == {c \in DOMAIN dm.cells : dm.cells[c] > 0}

\* np.std(valid_depths) ** 2, the population variance of the cells V of the grid:
\* (n * sum(x^2) - sum(x)^2) / n^2.  The standard deviation is kept by its square,
\* which is rational.
Variance(dm, V) ==
    LET n == Cardinality(V)
        squares == [c \in V |-> dm.cells[c] * dm.cells[c]]
        total == SumCells(dm.cells, V)
    IN  Rat(n * SumCells(squares, V) - total * total, n * n * dm.den * dm.den)

\* The statistics calculate_depth_map returns with the grid.
DepthStatistics(dm, ref) ==
    LET V == ValidDepths(dm)
    IN  IF V # {}
        THEN [mean_depth |-> Rat(SumCells(dm.cells, V), Cardinality(V) * dm.den),
              max_depth |-> Rat(CHOOSE m \in {dm.cells[c] : c \in V} :
                                    \A c \in V : dm.cells[c] <= m, dm.den),
              min_depth |-> Rat(CHOOSE m \in {dm.cells[c] : c \in V} :
                                    \A c \in V : dm.cells[c] >= m, dm.den),
              std_depth_squared |-> Variance(dm, V),
              reference_elevation |-> ref]
        ELSE [mean_depth |-> Rat(0, 1), max_depth |-> Rat(0, 1),
              min_depth |-> Rat(0, 1), std_depth_squared |-> Rat(0, 1),
              reference_elevation |-> ref]

\* ------------------------------------------------------ process_mining_polygon
\* polygon.area, in cells.
Area(p) == Rat((p.x1 - p.x0) * (p.y1 - p.y0), 4)

\* The exception process_mining_polygon lets through, or "no".
ProcessRaises(d, p, vmethod) ==
    IF DepthMapRaises(p) THEN "ValueError: negative dimensions"
    ELSE IF vmethod = "montecarlo" /\ MonteCarloRaises(CalculateDepthMap(d, p, Rat(0, 1)))
         THEN "ValueError: low >= high"
    ELSE "no"

\* The dictionary process_mining_polygon returns when nothing is raised.
ProcessMiningPolygon(d, p, rmethod, vmethod, draws) ==
    LET ref == EstimateReferenceElevation(d, p, rmethod, BufferDistance)
        dm == CalculateDepthMap(d, p, ref)
        stats == DepthStatistics(dm, ref)
    IN  [polygon |-> p,
         depth_map |-> dm,
         depth_statistics |-> stats,
         volume_cubic_meters |-> Volume(dm, Rat(PixelSize, 1), vmethod, draws),
         area_square_meters |-> RatMul(Area(p), Rat(PixelSize * PixelSize, 1)),
         average_depth_meters |-> stats.mean_depth,
         max_depth_meters |-> stats.max_depth,
         reference_elevation |-> ref]

\* ------------------------------------------------------------ aggregate_results
RECURSIVE RatSum(_)
\* sum() of a sequence of numbers.
RatSum(seq) == IF seq = << >> THEN Rat(0, 1) ELSE RatAdd(Head(seq), RatSum(Tail(seq)))

\* RatMax with the last number of the sequence for the largest.
RatLast(seq) == seq[Len(seq)]

\* max() of a non-empty sequence of numbers.
RatMax(seq) == CHOOSE m \in {seq[k] : k \in DOMAIN seq} : \A k \in DOMAIN seq : RatLeq(seq[k], m)

\* max() of an empty sequence raises ValueError.
AggregateRaises(res) == res = << >>

\* aggregate_results(results), for a non-empty list.
AggregateResults(res) ==
    LET total_volume == RatSum([k \in DOMAIN res |-> res[k].volume_cubic_meters])
        total_area == RatSum([k \in DOMAIN res |-> res[k].area_square_meters])
    IN  [total_number_of_mines |-> Len(res),
         total_excavation_volume_cubic_meters |-> total_volume,
         total_mining_area_square_meters |-> total_area,
         total_mining_area_hectares |-> RatMul(total_area, Rat(1, 10000)),
         average_depth_across_all_mines |->
             RatMul(RatSum([k \in DOMAIN res |-> res[k].average_depth_meters]),
                    Rat(1, Len(res))),
         maximum_depth_across_all_mines |->
             RatMax([k \in DOMAIN res |-> res[k].max_depth_meters]),
         average_volume_per_mine |-> RatMul(total_volume, Rat(1, Len(res)))]

\* ------------------------------------------------------------ mining detector
\* self.min_area, in cells (config 'min_area').
MinArea == 1

\* An annotation of coco_data['annotations']: without a segmentation, with fewer
\* than 3 points, with the points of an invalid (self-crossing) ring, or with
\* the corners of the rectangle poly.
Annotation(kind, poly) == [kind |-> kind, poly |-> poly]

\* "if 'segmentation' in ann", "if len(points) >= 3" and
\* "if poly.is_valid and poly.area >= self.min_area".
IsDetected(ann) ==
    /\ ann.kind = "polygon"
    /\ RatLeq(Rat(MinArea, 1), Area(ann.poly))

RECURSIVE DetectFromAnnotations(_)
\* detect_from_annotations: the polygons appended, in the order of the annotations.
DetectFromAnnotations(anns) ==
    IF anns = << >> THEN << >>
    ELSE (IF IsDetected(Head(anns)) THEN <<Head(anns).poly>> ELSE << >>)
             \o DetectFromAnnotations(Tail(anns))

\* --------------------------------------------------------- boundary analyzer
\* create_rectangular_boundary(bounds)
CreateRectangularBoundary(minx, miny, maxx, maxy) == Rect(minx, miny, maxx, maxy)

\* IntersectionArea4 without the clip of an empty overlap to 0.
IntersectionArea4Unclipped(p, b) ==
    (Min(p.x1, b.x1) - Max(p.x0, b.x0)) * Max(0, Min(p.y1, b.y1) - Max(p.y0, b.y0))

\* poly.intersection(authorized_boundary).area, in quarter cells.
IntersectionArea4(p, b) ==
    Max(0, Min(p.x1, b.x1) - Max(p.x0, b.x0)) * Max(0, Min(p.y1, b.y1) - Max(p.y0, b.y0))

\* poly.area, in quarter cells.
Area4(p) == (p.x1 - p.x0) * (p.y1 - p.y0)

\* InsidePercentage with 100 for a polygon without area.
InsidePercentageDegenerate(p, b) ==
    IF Area4(p) > 0 THEN Rat(IntersectionArea4(p, b) * 100, Area4(p)) ELSE Rat(100, 1)

\* inside_percentage
InsidePercentage(p, b) ==
    IF Area4(p) > 0 THEN Rat(IntersectionArea4(p, b) * 100, Area4(p)) ELSE Rat(0, 1)

\* IsLegal with "> 95" for ">= 95".
IsLegalStrict(p, b) == ~RatLeq(InsidePercentage(p, b), Rat(95, 1))

\* "if inside_percentage >= 95"
IsLegal(p, b) == RatLeq(Rat(95, 1), InsidePercentage(p, b))

\* "elif inside_percentage <= 5"
IsIllegal(p, b) == ~IsLegal(p, b) /\ RatLeq(InsidePercentage(p, b), Rat(5, 1))

\* IsPartial with "if" for "elif": a legal polygon falls through to the else too.
IsPartialNoElif(p, b) == ~RatLeq(InsidePercentage(p, b), Rat(5, 1))

\* "else"
IsPartial(p, b) == ~IsLegal(p, b) /\ ~IsIllegal(p, b)

\* The dictionary appended to partial_polygons.
PartialRecord(p, b) ==
    [polygon |-> p,
     inside_area |-> Rat(IntersectionArea4(p, b), 4),
     outside_area |-> Rat(Area4(p) - IntersectionArea4(p, b), 4),
     inside_percentage |-> InsidePercentage(p, b)]

RECURSIVE LegalPolygons(_, _)
LegalPolygons(polys, b) ==
    IF polys = << >> THEN << >>
    ELSE (IF IsLegal(Head(polys), b) THEN <<Head(polys)>> ELSE << >>)
             \o LegalPolygons(Tail(polys), b)

RECURSIVE IllegalPolygons(_, _)
IllegalPolygons(polys, b) ==
    IF polys = << >> THEN << >>
    ELSE (IF IsIllegal(Head(polys), b) THEN <<Head(polys)>> ELSE << >>)
             \o IllegalPolygons(Tail(polys), b)

RECURSIVE PartialPolygons(_, _)
PartialPolygons(polys, b) ==
    IF polys = << >> THEN << >>
    ELSE (IF IsPartial(Head(polys), b) THEN <<PartialRecord(Head(polys), b)>> ELSE << >>)
             \o PartialPolygons(Tail(polys), b)

\* classify_mining_areas, once a boundary b is there.
ClassifyMiningAreas(polys, b) ==
    [legal |-> LegalPolygons(polys, b),
     illegal |-> IllegalPolygons(polys, b),
     partial |-> PartialPolygons(polys, b),
     authorized_boundary |-> b]

\* The site counts of calculate_area_statistics.
CalculateAreaStatistics(cr) ==
    [num_legal_sites |-> Len(cr.legal),
     num_illegal_sites |-> Len(cr.illegal),
     num_partial_sites |-> Len(cr.partial),
     total_mining_sites |-> Len(cr.legal) + Len(cr.illegal) + Len(cr.partial)]

\* Severity of the violation of a partial record with "> 50".
PartialSeverityAtLeast(partial) ==
    IF RatLeq(Rat(50, 1), partial.inside_percentage) THEN "medium" ELSE "high"

\* 'medium' if partial['inside_percentage'] > 50 else 'high'
PartialSeverity(partial) ==
    IF ~RatLeq(partial.inside_percentage, Rat(50, 1)) THEN "medium" ELSE "high"

\* The record of the i-th illegal polygon.
IllegalViolation(i, poly) ==
    [violation_id |-> <<"ILLEGAL", i>>,
     type |-> "fully_outside",
     area_sqm |-> RatMul(Area(poly), Rat(100, 1)),
     severity |-> "high",
     polygon |-> poly]

\* The record of the i-th partial record.
PartialViolation(i, partial) ==
    [violation_id |-> <<"PARTIAL", i>>,
     type |-> "partially_outside",
     total_area_sqm |-> RatMul(Area(partial.polygon), Rat(100, 1)),
     outside_area_sqm |-> RatMul(partial.outside_area, Rat(100, 1)),
     outside_percentage |-> Rat(100 * partial.inside_percentage.den
                                    - partial.inside_percentage.num,
                                partial.inside_percentage.den),
     severity |-> PartialSeverity(partial),
     polygon |-> partial.polygon]

\* generate_violation_report: the records of the illegal polygons, then those of
\* the partial records.
GenerateViolationReport(cr) ==
    [i \in 1 .. Len(cr.illegal) |-> IllegalViolation(i, cr.illegal[i])]
        \o [i \in 1 .. Len(cr.partial) |-> PartialViolation(i, cr.partial[i])]

\* ------------------------------------------------------------------ inputs
\* dem_metadata['nodata'] of the rasters tried: a negative and a positive sentinel.
NodataValues == {-1, 9}
DemKinds == {"slope", "pit", "holes", "void"}

\* Side, in cells, of the excavated block of the raster "block", and the
\* elevations inside and around it.
BlockSide == 2
BlockElevation == 2
RingElevation == 5

\* The rasters tried: a slope, a pit in a plain, a raster with nodata cells and
\* cells at sea level, and a raster of nodata cells only.
DemOf(kind, nd) ==
    [c \in Cells |->
        IF kind = "slope" THEN 1 + c[1] + c[2]
        ELSE IF kind = "pit" THEN (IF c[1] = 1 /\ c[2] >= 1 THEN 2 ELSE 5)
        ELSE IF kind = "block"
             THEN (IF c[1] \in 1 .. BlockSide /\ c[2] \in 1 .. BlockSide
                   THEN BlockElevation ELSE RingElevation)
        ELSE IF kind = "holes"
             THEN (IF (c[1] + c[2]) % 3 = 0 THEN nd
                   ELSE IF (c[1] + c[2]) % 3 = 1 THEN 0 ELSE 3 + c[2])
        ELSE nd]

\* Footprints of positive area with sides of at most MaxSide half cells, inside,
\* across and beyond every edge of the raster.
Footprints ==
    {Rect(x0, y0, x0 + w, y0 + h) :
        x0 \in CoordLo .. CoordHiX - 1, y0 \in CoordLo .. CoordHiY - 1,
        w \in 1 .. MaxSide, h \in 1 .. MaxSide}

\* Reference elevations a caller passes to calculate_depth_map directly.
GivenReferences == {Rat(3, 1)}

\* Longest batch of footprints, and the footprints of a batch: squares of two
\* cells left of, across, inside, at the right edge of and right of the raster,
\* the whole raster, a footprint inside the raster that holds no cell, and the
\* square of BlockSide cells over the block of the raster "block".
MaxBatch == 2
BatchFootprints ==
    {Rect(x0, 1, x0 + 4, 5) :
        x0 \in {-7, -1, 1, 2 * DemCols - 2, 2 * DemCols, 2 * DemCols + 2}}
    \cup {Rect(-1, -1, 2 * DemCols + 1, 2 * DemRows + 1), Rect(2, 2, 3, 3)}
    \cup {Rect(1, 1, 1 + 2 * BlockSide, 1 + 2 * BlockSide)}

\* n_samples of calculate_volume_montecarlo.
NSamples == 2

\* Sequences over S of length at most n.
SeqUpTo(S, n) == UNION {[1 .. k -> S] : k \in 0 .. n}

\* Width of the footprints handed to the classifier, in half cells: the inside
\* fraction moves in steps of 1/ClassSide.
ClassSide == 20
\* Longest list of annotations or footprints handed to the classifier.
MaxPolygons == 2

\* Footprints for the classifier: wide ones sliding across the left edge of the
\* boundaries, half or wholly inside in y, a footprint of area 0 and one below min_area.
ClassFootprints ==
    {Rect(x0, y0, x0 + ClassSide, y0 + 2) : x0 \in -ClassSide .. 2, y0 \in {0, 1}}
    \cup {Rect(1, 0, 1, 2), Rect(0, 0, 1, 1)}

\* The boundary a caller supplies or loads.
SuppliedBoundary == Rect(0, 0, ClassSide + 4, 2)

Annotations ==
    {Annotation(k, [none |-> TRUE]) : k \in {"nosegmentation", "short", "invalid"}}
    \cup {Annotation("polygon", p) : p \in ClassFootprints}

\* Largest depth grid handed to an integrator directly, and its largest depth.
MaxGridRows == 3
MaxGridCols == 5
MaxDepth == 2

\* A depth grid of h rows and w columns, as calculate_depth_map returns it: of
\* uniform depth d, a ramp from 0 up to d, or a bowl (a clipped paraboloid on a
\* floor of depth 1).
DepthGrid(kind, h, w, d) ==
    [raised |-> "no", h |-> h, w |-> w, miny |-> 0, minx |-> 0, den |-> 1,
     cells |-> [c \in (0 .. h - 1) \X (0 .. w - 1) |->
                  IF kind = "uniform" THEN d
                  ELSE IF kind = "ramp" THEN Min(d, c[1] + c[2])
                  ELSE 1 + Max(0, d - (c[1] - h \div 2) * (c[1] - h \div 2)
                                    - (c[2] - w \div 2) * (c[2] - w \div 2))]]

DepthGrids ==
    {DepthGrid(kind, h, w, d) :
        kind \in {"uniform", "ramp", "bowl"},
        h \in 0 .. MaxGridRows, w \in 0 .. MaxGridCols, d \in 0 .. MaxDepth}

\* Pixel sizes of the calculators tried, and the factors they are scaled by.
PixelSizes == {Rat(1, 2), Rat(1, 1), Rat(PixelSize, 1)}
Factors == {Rat(1, 2), Rat(2, 1), Rat(3, 1)}

\* Largest side of a grid integrated twice, and the number of integrations.
MaxSampledSide == 2
MaxRuns == 2

\* satellite_image.shape[:2]
ImageRows == 10
ImageCols == 12

\* ------------------------------------------------------------------- state
VARIABLES
    pc,                   \* where the caller is
    polygons,             \* the footprints: detected_polygons / polygons
    error,                \* the exception that ended the run, or "no"
    \* DepthVolumeCalculator
    dem,                  \* self.dem
    nodata,               \* self.dem_metadata['nodata']
    reference_method,     \* reference_method / method
    volume_method,        \* volume_method
    elevations,           \* the cells sampled by estimate_reference_elevation
    reference_elevation,  \* the reference elevation returned or passed in
    depth_map,            \* what calculate_depth_map returned (or that it raised)
    depth_stats,          \* the statistics calculate_depth_map returned with it
    pixel_size,           \* self.pixel_size
    sample,               \* the cells the last Monte Carlo integration drew
    runs,                 \* the integrations made on depth_map, with their volumes
    results,              \* results of process_multiple_polygons
    aggregate,            \* what aggregate_results returned
    \* MiningDetector and BoundaryAnalyzer
    entry,                \* who asks for the classification
    annotations,          \* coco_data['annotations']
    boundary_arg,         \* the boundary the caller supplies (argument or file)
    authorized_boundary,  \* self.authorized_boundary
    classification_result,\* what classify_mining_areas returned
    statistics,           \* what calculate_area_statistics returned
    violations,           \* what generate_violation_report returned
    \* api.py
    analysis_jobs,        \* analysis_jobs, the job table
    start_requests,       \* the start_analysis requests and where their handlers are
    threads               \* the run_analysis threads started and where they are

calcVars == <<dem, nodata, reference_method, volume_method, elevations,
              reference_elevation, depth_map, depth_stats, pixel_size, sample, runs,
              results, aggregate>>
classVars == <<entry, annotations, boundary_arg, authorized_boundary,
               classification_result, statistics, violations>>
apiVars == <<analysis_jobs, start_requests, threads>>
vars == <<pc, polygons, error, calcVars, classVars, apiVars>>

None == [none |-> TRUE]

CalcUnused ==
    /\ dem = None /\ nodata = None /\ reference_method = None /\ volume_method = None
    /\ elevations = {} /\ reference_elevation = None /\ depth_map = None
    /\ depth_stats = None /\ pixel_size = None /\ sample = << >> /\ runs = << >>
    /\ results = << >> /\ aggregate = None

ClassUnused ==
    /\ entry = None /\ annotations = << >> /\ boundary_arg = None
    /\ authorized_boundary = None /\ classification_result = None /\ statistics = None
    /\ violations = None

ApiUnused == analysis_jobs = None /\ start_requests = None /\ threads = << >>

\* ---------------------------------- calls on one footprint (DepthVolumeCalculator)
Init ==
    /\ \E kind \in DemKinds, nd \in NodataValues :
          dem = DemOf(kind, nd) /\ nodata = nd
    /\ \E p \in Footprints : polygons = <<p>>
    /\ reference_method \in Methods
    /\ volume_method = None
    /\ pc = "start"
    /\ error = "no"
    /\ elevations = {}
    /\ reference_elevation = None
    /\ depth_map = None
    /\ depth_stats = None
    /\ pixel_size = Rat(PixelSize, 1)
    /\ sample = << >>
    /\ runs = << >>
    /\ results = << >>
    /\ aggregate = None
    /\ ClassUnused
    /\ ApiUnused

\* reference_elevation = self.estimate_reference_elevation(polygon, method)
EstimateReference ==
    /\ pc = "start"
    /\ elevations' = Elevations(dem, polygons[1], BufferDistance)
    /\ reference_elevation' =
          EstimateReferenceElevation(dem, polygons[1], reference_method, BufferDistance)
    /\ pc' = "estimated"
    /\ UNCHANGED <<polygons, error, dem, nodata, reference_method, volume_method,
                   depth_map, depth_stats, pixel_size, sample, runs, results, aggregate,
                   classVars, apiVars>>

\* The caller's state after calculate_depth_map(polygon, ref).
DepthMapCalled(ref) ==
    /\ depth_map' = CalculateDepthMap(dem, polygons[1], ref)
    /\ depth_stats' = IF DepthMapRaises(polygons[1]) THEN None
                      ELSE DepthStatistics(depth_map', ref)
    /\ pc' = IF DepthMapRaises(polygons[1]) THEN "raised" ELSE "mapped"
    /\ error' = IF DepthMapRaises(polygons[1])
                THEN "ValueError: negative dimensions" ELSE "no"

\* depth_map, depth_stats = self.calculate_depth_map(polygon, reference_elevation)
DepthMapOfEstimate ==
    /\ pc = "estimated"
    /\ DepthMapCalled(reference_elevation)
    /\ UNCHANGED <<polygons, dem, nodata, reference_method, volume_method, elevations,
                   reference_elevation, pixel_size, sample, runs, results, aggregate,
                   classVars, apiVars>>

\* calculate_depth_map(polygon, ref) with a reference elevation of the caller's.
DepthMapOfGiven ==
    /\ pc = "start"
    /\ \E ref \in GivenReferences :
          /\ reference_elevation' = ref
          /\ DepthMapCalled(ref)
    /\ UNCHANGED <<polygons, dem, nodata, reference_method, volume_method, elevations,
                   pixel_size, sample, runs, results, aggregate, classVars, apiVars>>

Next == EstimateReference \/ DepthMapOfEstimate \/ DepthMapOfGiven

Spec == Init /\ [][Next]_vars

\* ------------------- calculate_depth_volume: process_multiple_polygons, aggregate
InitBatch ==
    /\ \E kind \in {"pit", "holes", "block"} : dem = DemOf(kind, 9) /\ nodata = 9
    /\ polygons \in SeqUpTo(BatchFootprints, MaxBatch)
    /\ reference_method \in {"mean", "max"}
    /\ volume_method \in VolumeMethods
    /\ pc = "processing"
    /\ error = "no"
    /\ elevations = {}
    /\ reference_elevation = None
    /\ depth_map = None
    /\ depth_stats = None
    /\ pixel_size = Rat(PixelSize, 1)
    /\ sample = << >>
    /\ runs = << >>
    /\ results = << >>
    /\ aggregate = None
    /\ ClassUnused
    /\ ApiUnused

\* The cells np.random.randint can draw for the grid dm, n_samples times.
Draws(dm, vmethod) ==
    IF vmethod = "montecarlo" THEN [1 .. NSamples -> DOMAIN dm.cells] ELSE {<< >>}

\* One turn of the loop of process_multiple_polygons: process_mining_polygon of
\* the next polygon, whose exception nothing catches.
ProcessPolygon ==
    /\ pc = "processing"
    /\ Len(results) < Len(polygons)
    /\ LET i == Len(results) + 1
           p == polygons[i]
           ref == EstimateReferenceElevation(dem, p, reference_method, BufferDistance)
           dm == CalculateDepthMap(dem, p, ref)
           raises == ProcessRaises(dem, p, volume_method)
       IN  /\ elevations' = Elevations(dem, p, BufferDistance)
           /\ reference_elevation' = ref
           /\ depth_map' = dm
           /\ depth_stats' = IF dm.raised = "no" THEN DepthStatistics(dm, ref) ELSE None
           /\ IF raises # "no"
              THEN /\ pc' = "raised"
                   /\ error' = raises
                   /\ UNCHANGED results
              ELSE /\ \E draws \in Draws(dm, volume_method) :
                         results' = Append(results,
                             [id |-> i] @@ ProcessMiningPolygon(dem, p, reference_method,
                                                                volume_method, draws))
                   /\ UNCHANGED <<pc, error>>
    /\ UNCHANGED <<polygons, dem, nodata, reference_method, volume_method, pixel_size,
                   sample, runs, aggregate, classVars, apiVars>>

\* Aggregate_results on the results there are so far, complete or not.
Aggregate_partial ==
    /\ pc = "processing"
    /\ results # << >>
    /\ pc' = "aggregated"
    /\ aggregate' = AggregateResults(results)
    /\ UNCHANGED <<polygons, error, dem, nodata, reference_method, volume_method,
                   elevations, reference_elevation, depth_map, depth_stats, pixel_size,
                   sample, runs, results, classVars, apiVars>>

\* "return results", then aggregate = self.depth_calculator.aggregate_results(...)
Aggregate_results ==
    /\ pc = "processing"
    /\ Len(results) = Len(polygons)
    /\ IF AggregateRaises(results)
       THEN /\ pc' = "raised"
            /\ error' = "ValueError: max() arg is an empty sequence"
            /\ UNCHANGED aggregate
       ELSE /\ pc' = "aggregated"
            /\ aggregate' = AggregateResults(results)
            /\ UNCHANGED error
    /\ UNCHANGED <<polygons, dem, nodata, reference_method, volume_method, elevations,
                   reference_elevation, depth_map, depth_stats, pixel_size, sample, runs,
                   results, classVars, apiVars>>

NextBatch == ProcessPolygon \/ Aggregate_results

SpecBatch == InitBatch /\ [][NextBatch]_vars

\* ----------------------------- one integration of a depth grid, by every method
\* A calculator of some pixel size and a depth grid handed to one of its
\* calculate_volume_* methods.
VolumeStart(start) ==
    /\ depth_map \in DepthGrids
    /\ pixel_size \in PixelSizes
    /\ pc = start
    /\ error = "no"
    /\ polygons = << >>
    /\ dem = None /\ nodata = None /\ reference_method = None /\ volume_method = None
    /\ elevations = {} /\ reference_elevation = None /\ depth_stats = None
    /\ sample = << >> /\ runs = << >>
    /\ results = << >> /\ aggregate = None
    /\ ClassUnused
    /\ ApiUnused

InitVolume == VolumeStart("grid")

\* The entry of runs for an integration that returned volume.
Run(method, volume) == [method |-> method, pixel_size |-> pixel_size, volume |-> volume]

\* calculate_volume_simpsons(depth_map)
SimpsonsCall ==
    /\ pc = "grid"
    /\ volume_method' = "simpsons"
    /\ runs' = Append(runs, Run("simpsons", VolumeSimpsons(depth_map, pixel_size)))
    /\ pc' = "integrated"
    /\ UNCHANGED <<polygons, error, dem, nodata, reference_method, elevations,
                   reference_elevation, depth_map, depth_stats, pixel_size, sample,
                   results, aggregate, classVars, apiVars>>

\* calculate_volume_trapezoidal(depth_map)
TrapezoidalCall ==
    /\ pc = "grid"
    /\ volume_method' = "trapezoidal"
    /\ runs' = Append(runs, Run("trapezoidal", VolumeTrapezoidal(depth_map, pixel_size)))
    /\ pc' = "integrated"
    /\ UNCHANGED <<polygons, error, dem, nodata, reference_method, elevations,
                   reference_elevation, depth_map, depth_stats, pixel_size, sample,
                   results, aggregate, classVars, apiVars>>

\* What calculate_volume_montecarlo(depth_map) leaves: the ValueError of
\* np.random.randint on an empty axis, or the volume for the cells it drew.
MonteCarloCalled ==
    /\ volume_method' = "montecarlo"
    /\ IF MonteCarloRaises(depth_map)
       THEN /\ pc' = "raised"
            /\ error' = "ValueError: low >= high"
            /\ UNCHANGED <<sample, runs>>
       ELSE /\ \E draws \in Draws(depth_map, "montecarlo") :
                  /\ sample' = draws
                  /\ runs' = Append(runs,
                        Run("montecarlo", VolumeMonteCarlo(depth_map, pixel_size, draws)))
            /\ pc' = IF pc = "grid" \/ Len(runs') = MaxRuns THEN "integrated" ELSE pc
            /\ UNCHANGED error
    /\ UNCHANGED <<polygons, dem, nodata, reference_method, elevations,
                   reference_elevation, depth_map, depth_stats, pixel_size,
                   results, aggregate, classVars, apiVars>>

\* calculate_volume_montecarlo(depth_map)
MonteCarloCall == pc = "grid" /\ MonteCarloCalled

NextVolume == SimpsonsCall \/ TrapezoidalCall \/ MonteCarloCall

SpecVolume == InitVolume /\ [][NextVolume]_vars

\* ------------------- calculate_volume_montecarlo more than once on the same grid
InitMonteCarlo ==
    /\ VolumeStart("sampling")
    /\ depth_map.h <= MaxSampledSide /\ depth_map.w <= MaxSampledSide

\* calculate_volume_montecarlo(depth_map), up to MaxRuns times with the same
\* arguments.
MonteCarloRepeat == pc = "sampling" /\ MonteCarloCalled

NextMonteCarlo == MonteCarloRepeat

SpecMonteCarlo == InitMonteCarlo /\ [][NextMonteCarlo]_vars

\* ------------------------------- detection and classification against a boundary
\* Either a caller hands footprints to BoundaryAnalyzer.classify_mining_areas, with
\* or without a boundary argument and with or without a loaded boundary, or the
\* tool (main.py) detects them from annotations and runs analyze_boundaries with
\* or without a boundary file on a fresh BoundaryAnalyzer().
InitClassify ==
    /\ entry \in {"analyzer", "cli"}
    /\ boundary_arg \in {None, SuppliedBoundary}
    /\ IF entry = "analyzer"
       THEN /\ authorized_boundary \in {None, SuppliedBoundary}
            /\ annotations = << >>
            /\ polygons \in SeqUpTo(ClassFootprints, MaxPolygons)
            /\ pc = "detected"
       ELSE /\ authorized_boundary = None
            /\ annotations \in SeqUpTo(Annotations, MaxPolygons)
            /\ polygons = << >>
            /\ pc = "start"
    /\ error = "no"
    /\ classification_result = None
    /\ statistics = None
    /\ violations = None
    /\ CalcUnused
    /\ ApiUnused

\* detect_mining_areas: self.detected_polygons = detect_from_annotations(...)
DetectMiningAreas ==
    /\ entry = "cli" /\ pc = "start"
    /\ polygons' = DetectFromAnnotations(annotations)
    /\ pc' = "detected"
    /\ UNCHANGED <<error, calcVars, classVars, apiVars>>

\* classify_mining_areas(detected_polygons, authorized_boundary) called directly.
ClassifyCall ==
    /\ entry = "analyzer" /\ pc = "detected"
    /\ LET b == IF boundary_arg = None THEN authorized_boundary ELSE boundary_arg
       IN  IF b = None
           THEN /\ pc' = "raised"
                /\ error' = "ValueError: No authorized boundary provided or loaded"
                /\ UNCHANGED classification_result
           ELSE /\ pc' = "classified"
                /\ classification_result' = ClassifyMiningAreas(polygons, b)
                /\ UNCHANGED error
    /\ UNCHANGED <<polygons, calcVars, entry, annotations, boundary_arg,
                   authorized_boundary, statistics, violations, apiVars>>

\* The test boundary of analyze_boundaries: the image less a margin of a tenth of
\* its smaller side.
TestBoundary ==
    LET margin == Min(ImageRows, ImageCols) \div 10
    IN  CreateRectangularBoundary(2 * margin, 2 * margin,
                                  2 * (ImageCols - margin), 2 * (ImageRows - margin))

\* analyze_boundaries(boundary_path): load the boundary or make the test boundary,
\* classify, calculate the statistics, generate the violation report.
AnalyzeBoundaries ==
    /\ entry = "cli" /\ pc = "detected"
    /\ authorized_boundary' =
          IF boundary_arg # None THEN boundary_arg ELSE TestBoundary
    /\ classification_result' = ClassifyMiningAreas(polygons, authorized_boundary')
    /\ statistics' = CalculateAreaStatistics(classification_result')
    /\ violations' = GenerateViolationReport(classification_result')
    /\ pc' = "reported"
    /\ UNCHANGED <<polygons, error, calcVars, entry, annotations, boundary_arg, apiVars>>

\* calculate_area_statistics(classification_result) after a direct classification.
StatisticsCall ==
    /\ entry = "analyzer" /\ pc = "classified"
    /\ statistics' = CalculateAreaStatistics(classification_result)
    /\ pc' = "analyzed"
    /\ UNCHANGED <<polygons, error, calcVars, entry, annotations, boundary_arg,
                   authorized_boundary, classification_result, violations, apiVars>>

\* generate_violation_report(classification_result, statistics) after them.
ViolationReportCall ==
    /\ entry = "analyzer" /\ pc = "analyzed"
    /\ violations' = GenerateViolationReport(classification_result)
    /\ pc' = "reported"
    /\ UNCHANGED <<polygons, error, calcVars, entry, annotations, boundary_arg,
                   authorized_boundary, classification_result, statistics, apiVars>>

NextClassify ==
    \/ DetectMiningAreas
    \/ ClassifyCall
    \/ AnalyzeBoundaries
    \/ StatisticsCall
    \/ ViolationReportCall

SpecClassify == InitClassify /\ [][NextClassify]_vars

\* ------------------------------------------------------ the job table (api.py)
\* Jobs uploaded and start requests made, at most.
MaxJobs == 2
MaxRequests == 2
JobIds == 1 .. MaxJobs
RequestIds == 1 .. MaxRequests

\* A job id that is not a key of analysis_jobs.
NoJob == [status |-> "absent"]

\* analysis_jobs[job_id] as upload_files creates it; 'error' and 'results' are
\* keys the job does not have yet.
UploadedJob ==
    [status |-> "uploaded", progress |-> 0, current_step |-> "Uploaded",
     error |-> "absent", results |-> "absent"]

\* A server without jobs, requests or threads.
InitApi ==
    /\ analysis_jobs = [j \in JobIds |-> NoJob]
    /\ start_requests = [r \in RequestIds |-> [pc |-> "idle"]]
    /\ threads = << >>
    /\ pc = "serving"
    /\ error = "no"
    /\ polygons = << >>
    /\ CalcUnused
    /\ ClassUnused

\* upload_files: a job with a fresh id.
UploadFiles(j) ==
    /\ analysis_jobs[j] = NoJob
    /\ analysis_jobs' = [analysis_jobs EXCEPT ![j] = UploadedJob]
    /\ UNCHANGED <<pc, polygons, error, calcVars, classVars, start_requests, threads>>

\* start_analysis(job_id), up to the test of the status: 404 for an unknown job,
\* 400 for a job that is not 'uploaded'.
StartAnalysisCheck(r, j) ==
    /\ start_requests[r].pc = "idle"
    /\ start_requests' = [start_requests EXCEPT ![r] =
          IF analysis_jobs[j] = NoJob
          THEN [pc |-> "done", job |-> j, response |-> "404 Job not found"]
          ELSE IF analysis_jobs[j].status # "uploaded"
          THEN [pc |-> "done", job |-> j,
                response |-> "400 Job already processing or completed"]
          ELSE [pc |-> "checked", job |-> j]]
    /\ UNCHANGED <<pc, polygons, error, calcVars, classVars, analysis_jobs, threads>>

\* start_analysis(job_id), from the test on: the thread is started and the
\* request answered.
StartAnalysisThread(r) ==
    /\ start_requests[r].pc = "checked"
    /\ threads' = Append(threads, [job |-> start_requests[r].job, pc |-> "status"])
    /\ start_requests' = [start_requests EXCEPT ![r] =
          [pc |-> "done", job |-> start_requests[r].job,
           response |-> "200 Analysis started"]]
    /\ UNCHANGED <<pc, polygons, error, calcVars, classVars, analysis_jobs>>

\* The thread t moves on to the statement at.
ThreadAt(t, at) == threads' = [threads EXCEPT ![t].pc = at]

\* analysis_jobs[job_id]['status'] = 'processing'
RunSetProcessing(t) ==
    /\ threads[t].pc = "status"
    /\ analysis_jobs' = [analysis_jobs EXCEPT ![threads[t].job].status = "processing"]
    /\ ThreadAt(t, "progress")
    /\ UNCHANGED <<pc, polygons, error, calcVars, classVars, start_requests>>

\* analysis_jobs[job_id]['progress'] = 10
RunSetProgress(t) ==
    /\ threads[t].pc = "progress"
    /\ analysis_jobs' = [analysis_jobs EXCEPT ![threads[t].job].progress = 10]
    /\ ThreadAt(t, "loader")
    /\ UNCHANGED <<pc, polygons, error, calcVars, classVars, start_requests>>

\* data_loader = DataLoader(): __init__ has a required argument data_dir, the
\* call raises TypeError and the except clause is entered.
RunDataLoader(t) ==
    /\ threads[t].pc = "loader"
    /\ ThreadAt(t, "except")
    /\ UNCHANGED <<pc, polygons, error, calcVars, classVars, analysis_jobs, start_requests>>

\* analysis_jobs[job_id]['status'] = 'failed'
RunSetFailed(t) ==
    /\ threads[t].pc = "except"
    /\ analysis_jobs' = [analysis_jobs EXCEPT ![threads[t].job].status = "failed"]
    /\ ThreadAt(t, "error")
    /\ UNCHANGED <<pc, polygons, error, calcVars, classVars, start_requests>>

\* analysis_jobs[job_id]['error'] = str(e)
RunSetError(t) ==
    /\ threads[t].pc = "error"
    /\ analysis_jobs' = [analysis_jobs EXCEPT ![threads[t].job].error =
                            "TypeError: missing data_dir"]
    /\ ThreadAt(t, "done")
    /\ UNCHANGED <<pc, polygons, error, calcVars, classVars, start_requests>>

\* A step of a run_analysis thread.
RunAnalysis ==
    \E t \in DOMAIN threads :
        \/ RunSetProcessing(t)
        \/ RunSetProgress(t)
        \/ RunDataLoader(t)
        \/ RunSetFailed(t)
        \/ RunSetError(t)

NextApi ==
    \/ \E j \in JobIds : UploadFiles(j)
    \/ \E r \in RequestIds, j \in JobIds : StartAnalysisCheck(r, j)
    \/ \E r \in RequestIds : StartAnalysisThread(r)
    \/ RunAnalysis

SpecApi == InitApi /\ [][NextApi]_vars

\* The threads started are scheduled until they end.
SpecApiFair == SpecApi /\ WF_vars(RunAnalysis)

\* ================================================================== claims
ThePolygon == polygons[1]

\* The cells of the raster inside the ring around the footprint.
RingCells(p, bd) == {c \in Cells : BufferZoneContains(p, bd, c[2], c[1])}

\* The cells of the raster inside the bounding box of the ring, clamped to the raster.
BoxCells(p, bd) == Scanned(Window(BufferZoneBounds(p, bd)))

\* C5: calculate_depth_map never raises, wherever the footprint lies: it returns a
\* grid (possibly empty) over the bounding box clamped to the raster.
C5_DepthMapNeverRaises ==
    depth_map # None =>
        /\ depth_map.raised = "no"
        /\ depth_map.h >= 0 /\ depth_map.w >= 0

\* C7: with no valid cell in the ring, estimate_reference_elevation returns the
\* aggregate of the valid cells of the clamped bounding box, and 0.0 when there is none.
C7_FallbackOrZero ==
    (pc = "estimated" /\ RingSample(dem, ThePolygon, BufferDistance) = {}) =>
        LET box == {c \in BoxCells(ThePolygon, BufferDistance) : IsValidElevation(dem[c])}
        IN  reference_elevation =
                IF box = {} THEN Rat(0, 1) ELSE Aggregate(dem, box, reference_method)

\* C8: when the ring sample is not empty, it is exactly the valid cells of the
\* raster that lie in the ring: none inside the footprint, none beyond the buffer,
\* none left out.
C8_RingSampleExact ==
    (pc = "estimated" /\ RingSample(dem, ThePolygon, BufferDistance) # {}) =>
        elevations = {c \in RingCells(ThePolygon, BufferDistance) : IsValidElevation(dem[c])}

\* C9: no cell whose elevation is the nodata sentinel is in the sample, be it the
\* ring sample or the fallback.
C9_NoNodataSampled ==
    pc = "estimated" => \A c \in elevations : dem[c] # nodata

\* C10: every cell of a returned depth grid is >= 0; a cell the footprint contains
\* holds max(0, reference - elevation), every other cell of the window holds 0.
C10_DepthCells ==
    (depth_map # None /\ depth_map.raised = "no") =>
        \A c \in DOMAIN depth_map.cells :
            LET y == depth_map.miny + c[1]
                x == depth_map.minx + c[2]
                depth == Rat(depth_map.cells[c], depth_map.den)
                diff == Rat(reference_elevation.num - dem[<<y, x>>] * reference_elevation.den,
                            reference_elevation.den)
            IN  /\ RatLeq(Rat(0, 1), depth)
                /\ Contains(ThePolygon, x, y) =>
                       IF RatLeq(Rat(0, 1), diff) THEN RatEq(depth, diff)
                       ELSE RatEq(depth, Rat(0, 1))
                /\ ~Contains(ThePolygon, x, y) => RatEq(depth, Rat(0, 1))

\* C10 witness: a grid with a cell of positive depth, a contained cell above the
\* reference that is clamped to 0, and a cell outside the footprint.
C10_Witness ==
    /\ depth_map # None /\ depth_map.raised = "no"
    /\ \E c \in DOMAIN depth_map.cells : depth_map.cells[c] > 0
    /\ \E c \in DOMAIN depth_map.cells :
          /\ Contains(ThePolygon, depth_map.minx + c[2], depth_map.miny + c[1])
          /\ dem[<<depth_map.miny + c[1], depth_map.minx + c[2]>>] * reference_elevation.den
                 > reference_elevation.num
          /\ depth_map.cells[c] = 0
    /\ \E c \in DOMAIN depth_map.cells :
          ~Contains(ThePolygon, depth_map.minx + c[2], depth_map.miny + c[1])

\* ------------------------------------------------------- claims on the batch
\* What a skipped footprint would leave in a result list.
IsSkipDiagnostic(e) == "skipped" \in DOMAIN e

\* C4: a footprint whose processing fails (here: Monte Carlo on a grid without
\* cells, the windows being in range) leaves a skip diagnostic as its result, every
\* other footprint of the batch is processed, and the batch reaches the aggregator.
C4_FailureIsolated ==
    (pc \in {"raised", "aggregated"} /\ \A k \in DOMAIN polygons : ~DepthMapRaises(polygons[k])) =>
        /\ \A k \in DOMAIN polygons :
              /\ k \in DOMAIN results
              /\ ProcessRaises(dem, polygons[k], volume_method) # "no" =>
                     IsSkipDiagnostic(results[k])
        /\ polygons # << >> => pc = "aggregated"

\* ------------------------------------------------- claims on the classification
RECURSIVE Count(_, _)
\* How often e occurs in the sequence seq.
Count(seq, e) ==
    IF seq = << >> THEN 0
    ELSE (IF Head(seq) = e THEN 1 ELSE 0) + Count(Tail(seq), e)

Occurs(seq, e) == \E k \in DOMAIN seq : seq[k] = e

PartialOf(cr) == [k \in DOMAIN cr.partial |-> cr.partial[k].polygon]

\* The footprint lies wholly inside, or wholly outside, the boundary.
Within(p, b) == b.x0 <= p.x0 /\ p.x1 <= b.x1 /\ b.y0 <= p.y0 /\ p.y1 <= b.y1
Disjoint(p, b) == p.x1 <= b.x0 \/ b.x1 <= p.x0 \/ p.y1 <= b.y0 \/ b.y1 <= p.y0

\* C1: a footprint (of positive area) is legal when at least 95% of its area is
\* inside the boundary, illegal when at most 5% is, partial otherwise; one wholly
\* inside is legal at 100%, one disjoint from the boundary is illegal at 0%.
C1_Thresholds ==
    classification_result # None =>
        LET cr == classification_result
            b == cr.authorized_boundary
        IN  \A k \in DOMAIN polygons :
                LET p == polygons[k]
                    in4 == IntersectionArea4(p, b)
                IN  Area4(p) > 0 =>
                        /\ Occurs(cr.legal, p) <=> 100 * in4 >= 95 * Area4(p)
                        /\ Occurs(cr.illegal, p) <=> 100 * in4 <= 5 * Area4(p)
                        /\ Occurs(PartialOf(cr), p) <=>
                               (5 * Area4(p) < 100 * in4 /\ 100 * in4 < 95 * Area4(p))
                        /\ Within(p, b) => Occurs(cr.legal, p) /\ in4 = Area4(p)
                        /\ Disjoint(p, b) => Occurs(cr.illegal, p) /\ in4 = 0

\* C1 witness: a legal footprint with exactly 95% inside next to an illegal one
\* with exactly 5% inside.
C1_Witness ==
    /\ classification_result # None
    /\ \E k \in DOMAIN classification_result.legal :
          LET p == classification_result.legal[k]
          IN  100 * IntersectionArea4(p, classification_result.authorized_boundary)
                  = 95 * Area4(p) /\ Area4(p) > 0
    /\ \E k \in DOMAIN classification_result.illegal :
          LET p == classification_result.illegal[k]
          IN  100 * IntersectionArea4(p, classification_result.authorized_boundary)
                  = 5 * Area4(p) /\ Area4(p) > 0

\* C2: legal, illegal and partial together hold every input footprint as often as
\* the input does, and the site counts add up to the number of inputs.
C2_Partition ==
    classification_result # None =>
        LET cr == classification_result
            out == cr.legal \o cr.illegal \o PartialOf(cr)
        IN  /\ Len(out) = Len(polygons)
            /\ \A k \in DOMAIN polygons : Count(out, polygons[k]) = Count(polygons, polygons[k])
            /\ statistics # None =>
                  /\ statistics.num_legal_sites + statistics.num_illegal_sites
                         + statistics.num_partial_sites = Len(polygons)
                  /\ statistics.total_mining_sites = Len(polygons)

\* C2 witness: statistics of two footprints, one legal and one partial.
C2_Witness ==
    /\ statistics # None
    /\ Len(polygons) = 2
    /\ statistics.num_legal_sites = 1
    /\ statistics.num_partial_sites = 1

\* C3: a classification asked for with no boundary supplied and none loaded ends
\* in an error and yields no classification result.
C3_MissingBoundaryFatal ==
    (/\ boundary_arg = None
     /\ entry = "cli" \/ authorized_boundary = None
     /\ polygons # << >>
     /\ pc \in {"classified", "analyzed", "reported", "raised"}) =>
        pc = "raised" /\ classification_result = None

\* C6: every annotation with fewer than 3 points or an invalid ring is reported by
\* a diagnostic in what the detection returns, next to the polygons of the others.
C6_SkippedReported ==
    (entry = "cli" /\ pc # "start") =>
        /\ \A k \in DOMAIN annotations :
              annotations[k].kind \in {"short", "invalid"} =>
                  \E j \in DOMAIN polygons : IsSkipDiagnostic(polygons[j])
        /\ \A k \in DOMAIN annotations :
              IsDetected(annotations[k]) => Occurs(polygons, annotations[k].poly)

\* ------------------------------------------------- claims on depth statistics
\* The strictly positive cells of the grid in depth_map.
PositiveCells == {c \in DOMAIN depth_map.cells : depth_map.cells[c] > 0}

TotalDepth == SumCells(depth_map.cells, DOMAIN depth_map.cells)

\* sum(depth) * pixelSize^2 for the grid in depth_map and the pixel size ps.
FlatSum(ps) == RatMul(Rat(TotalDepth, depth_map.den), RatMul(ps, ps))

\* C12: whatever the method, a volume returned for a grid of non-negative cells is
\* >= 0, and it is 0 when every cell of the grid is 0.
C12_VolumeNonNegative ==
    \A k \in DOMAIN runs :
        /\ RatLeq(Rat(0, 1), runs[k].volume)
        /\ (\A c \in DOMAIN depth_map.cells : depth_map.cells[c] = 0) =>
               runs[k].volume = Rat(0, 1)

\* C12 witness: Simpson's rule on a grid of zeros of at least 3 x 3 cells.
C12_Witness ==
    /\ pc = "integrated" /\ runs # << >>
    /\ runs[1].method = "simpsons"
    /\ depth_map.h >= 3 /\ depth_map.w >= 3
    /\ \A c \in DOMAIN depth_map.cells : depth_map.cells[c] = 0

\* C13: the flat-sum volume is sum(depth) * pixelSize^2, and for the footprint of
\* BlockSide x BlockSide cells over the block of the raster "block", with the
\* methods 'mean' and 'trapezoidal', the reference is the elevation of the ring,
\* the depth is uniform over exactly BlockSide^2 cells and the volume is
\* depth * BlockSide^2 * pixelSize^2.
C13_BlockVolume ==
    \A k \in DOMAIN results :
        LET r == results[k]
            positive == {c \in DOMAIN r.depth_map.cells : r.depth_map.cells[c] > 0}
            depth == RingElevation - BlockElevation
        IN  (volume_method = "trapezoidal" /\ reference_method = "mean") =>
               /\ r.volume_cubic_meters
                      = Rat(SumCells(r.depth_map.cells, DOMAIN r.depth_map.cells)
                                * PixelSize * PixelSize, r.depth_map.den)
               /\ (/\ dem = DemOf("block", nodata)
                   /\ r.polygon = Rect(1, 1, 1 + 2 * BlockSide, 1 + 2 * BlockSide)) =>
                      /\ r.reference_elevation = Rat(RingElevation, 1)
                      /\ Cardinality(positive) = BlockSide * BlockSide
                      /\ \A c \in positive :
                            Rat(r.depth_map.cells[c], r.depth_map.den) = Rat(depth, 1)
                      /\ r.volume_cubic_meters
                             = Rat(depth * BlockSide * BlockSide * PixelSize * PixelSize, 1)

\* The cells of the stencil with the corner b.
StencilCells(b) == (b[1] .. b[1] + 2) \X (b[2] .. b[2] + 2)

\* C14: Simpson's rule adds up 3 x 3 stencils no two of which share a cell of the
\* grid, each weighted by [[1,4,1],[4,16,4],[1,4,1]], and scales by pixelSize^2 / 9.
C14_StencilsDisjoint ==
    \A k \in DOMAIN runs :
        (runs[k].method = "simpsons" /\ depth_map.h >= 3 /\ depth_map.w >= 3) =>
            LET B == SimpsonBlocks(depth_map.h, depth_map.w)
                block == [b \in B |-> BlockVolume(depth_map, b[1], b[2])]
            IN  /\ \A b1, b2 \in B : b1 # b2 => StencilCells(b1) \cap StencilCells(b2) = {}
                /\ runs[k].volume
                       = RatMul(Rat(SumCells(block, B), 9 * depth_map.den),
                                RatMul(runs[k].pixel_size, runs[k].pixel_size))

\* Rows and columns left after the trim of an even axis.
Trimmed(n) == IF n % 2 = 0 THEN n - 1 ELSE n

\* The grid in depth_map without the last row of an even number of rows and the
\* last column of an even number of columns.
TrimmedGrid ==
    [depth_map EXCEPT
        !.h = Trimmed(depth_map.h), !.w = Trimmed(depth_map.w),
        !.cells = [c \in (0 .. Trimmed(depth_map.h) - 1) \X (0 .. Trimmed(depth_map.w) - 1)
                       |-> depth_map.cells[c]]]

C16_SimpsonNearFlatSum ==
    \A k \in DOMAIN runs :
        (/\ runs[k].method = "simpsons"
         /\ depth_map.h % 2 = 1 /\ depth_map.w % 2 = 1
         /\ \A c \in DOMAIN depth_map.cells : depth_map.cells[c] > 0) =>
            LET flat == FlatSum(runs[k].pixel_size)
                simpson == runs[k].volume
                twenty == Rat(20, 1)
            IN  /\ RatLeq(RatMul(twenty, simpson), RatMul(Rat(21, 1), flat))
                /\ RatLeq(RatMul(Rat(19, 1), flat), RatMul(twenty, simpson))

\* C17: for every method, the volume at pixel size k * p is k^2 times the volume
\* at pixel size p (Monte Carlo: for the same cells drawn).
C17_QuadraticInPixelSize ==
    \A j \in DOMAIN runs : \A k \in Factors :
        Volume(depth_map, RatMul(k, runs[j].pixel_size), runs[j].method, sample)
            = RatMul(RatMul(k, k), runs[j].volume)

\* C17 witness: a Monte Carlo volume that is not 0, at the pixel size of the
\* pipeline.
C17_Witness ==
    /\ pc = "integrated" /\ runs # << >>
    /\ runs[1].method = "montecarlo"
    /\ runs[1].pixel_size = Rat(PixelSize, 1)
    /\ runs[1].volume # Rat(0, 1)

\* C18: two Monte Carlo integrations of the same grid with the same pixel size
\* and sample count return the same volume, whatever ran before them.
C18_MonteCarloReproducible ==
    \A i, j \in DOMAIN runs :
        (runs[i].method = "montecarlo" /\ runs[j].method = "montecarlo"
            /\ runs[i].pixel_size = runs[j].pixel_size) =>
                runs[i].volume = runs[j].volume

\* C19: what process_multiple_polygons computes for a footprint (reference
\* elevation, depth grid, depth statistics, volume) is the same wherever the
\* footprint stands in the batch and whatever else the batch holds.
C19_ResultOfFootprintOnly ==
    \A i, j \in DOMAIN results :
        results[i].polygon = results[j].polygon =>
            /\ results[i].reference_elevation = results[j].reference_elevation
            /\ results[i].depth_map = results[j].depth_map
            /\ results[i].depth_statistics = results[j].depth_statistics
            /\ results[i].volume_cubic_meters = results[j].volume_cubic_meters

\* ----------------------------------------------- claims on the violation report
\* C20: the report has one record per illegal polygon, of severity high, then one
\* per partial record, of severity medium when more than half of the polygon is
\* inside the boundary and high otherwise; none for a legal polygon; the ids of
\* its records are pairwise distinct.
C20_ViolationReport ==
    pc = "reported" =>
        LET cr == classification_result
            ni == Len(cr.illegal)
        IN  /\ Len(violations) = ni + Len(cr.partial)
            /\ \A i \in 1 .. ni :
                  /\ violations[i].polygon = cr.illegal[i]
                  /\ violations[i].severity = "high"
            /\ \A i \in 1 .. Len(cr.partial) :
                  LET p == cr.partial[i].polygon
                  IN  /\ violations[ni + i].polygon = p
                      /\ violations[ni + i].severity =
                            IF 2 * IntersectionArea4(p, cr.authorized_boundary) > Area4(p)
                            THEN "medium" ELSE "high"
            /\ \A i \in DOMAIN violations :
                  ~Occurs(cr.legal, violations[i].polygon)
            /\ \A i, j \in DOMAIN violations :
                  i # j => violations[i].violation_id # violations[j].violation_id

\* C20 witness: a report with an illegal footprint and a footprint with 60% of
\* its area inside the boundary, of severity medium.
C20_Witness ==
    /\ pc = "reported" /\ Len(violations) = 2
    /\ violations[1].severity = "high" /\ violations[1].type = "fully_outside"
    /\ violations[2].type = "partially_outside" /\ violations[2].severity = "medium"
    /\ 100 * IntersectionArea4(violations[2].polygon,
                               classification_result.authorized_boundary)
           = 60 * Area4(violations[2].polygon)

\* --------------------------------------------------- claims on the aggregate
RECURSIVE SumUpTo(_, _)
\* seq[1] + ... + seq[n]
SumUpTo(seq, n) == IF n = 0 THEN Rat(0, 1) ELSE RatAdd(SumUpTo(seq, n - 1), seq[n])

\* C21: for a non-empty list of results the report has the sum of the volumes, the
\* sum of the areas in m^2 and that sum / 10000 in hectares, the largest of the
\* maximum depths, the mean of the mean depths and the number of results.
C21_AggregateTotals ==
    pc = "aggregated" =>
        LET n == Len(results)
            volumes == [k \in 1 .. n |-> results[k].volume_cubic_meters]
            areas == [k \in 1 .. n |-> results[k].area_square_meters]
            means == [k \in 1 .. n |-> results[k].average_depth_meters]
        IN  /\ n > 0
            /\ aggregate.total_number_of_mines = n
            /\ aggregate.total_excavation_volume_cubic_meters = SumUpTo(volumes, n)
            /\ aggregate.total_mining_area_square_meters = SumUpTo(areas, n)
            /\ RatMul(aggregate.total_mining_area_hectares, Rat(10000, 1))
                   = SumUpTo(areas, n)
            /\ \A k \in 1 .. n :
                  RatLeq(results[k].max_depth_meters, aggregate.maximum_depth_across_all_mines)
            /\ \E k \in 1 .. n :
                  results[k].max_depth_meters = aggregate.maximum_depth_across_all_mines
            /\ RatMul(aggregate.average_depth_across_all_mines, Rat(n, 1)) = SumUpTo(means, n)

\* C21 witness: the report of two footprints with different, positive maximum
\* depths and volumes.
C21_Witness ==
    /\ pc = "aggregated" /\ Len(results) = 2
    /\ results[1].max_depth_meters # results[2].max_depth_meters
    /\ results[1].max_depth_meters # Rat(0, 1) /\ results[2].max_depth_meters # Rat(0, 1)
    /\ results[1].volume_cubic_meters # Rat(0, 1)
    /\ results[2].volume_cubic_meters # Rat(0, 1)

\* C22: aggregate_results runs only on a list that has the result of every
\* footprint of the batch, in the order of the batch.
C22_AggregateAfterAll ==
    (pc = "aggregated" \/ aggregate # None) =>
        /\ Len(results) = Len(polygons)
        /\ \A k \in DOMAIN polygons : results[k].polygon = polygons[k] /\ results[k].id = k

\* C22 witness: a report for a batch of two footprints.
C22_Witness ==
    /\ pc = "aggregated" /\ Len(polygons) = 2 /\ aggregate.total_number_of_mines = 2

\* C30: aggregate_results of an empty list of results raises nothing and reports
\* 0 mines, volume 0, area 0 and an average volume per mine of 0.
C30_EmptyAggregate ==
    (polygons = << >> /\ pc \in {"aggregated", "raised"}) =>
        /\ pc = "aggregated"
        /\ aggregate.total_number_of_mines = 0
        /\ aggregate.total_excavation_volume_cubic_meters = Rat(0, 1)
        /\ aggregate.total_mining_area_square_meters = Rat(0, 1)
        /\ aggregate.average_volume_per_mine = Rat(0, 1)

\* ------------------------------------------- claims on the window and the crop
\* C28: every cell of the raster whose point the footprint contains lies in the
\* window of the depth grid and has its depth there.
C28_ContainedCellsScanned ==
    (pc = "mapped" /\ depth_map.raised = "no") =>
        \A c \in Cells :
            Contains(ThePolygon, c[2], c[1]) =>
                /\ <<c[1] - depth_map.miny, c[2] - depth_map.minx>> \in DOMAIN depth_map.cells
                /\ depth_map.cells[<<c[1] - depth_map.miny, c[2] - depth_map.minx>>]
                       = Max(0, reference_elevation.num - dem[c] * reference_elevation.den)

\* The cell lies in the bounding box of the ring around p.
InBufferedBox(p, bd, c) ==
    LET b == BufferZoneBounds(p, bd)
    IN  b.minx <= 2 * c[2] /\ 2 * c[2] <= b.maxx /\ b.miny <= 2 * c[1] /\ 2 * c[1] <= b.maxy

\* The bounding box of the ring around p has no point in the raster.
BoxOutsideRaster(p, bd) ==
    LET b == BufferZoneBounds(p, bd)
    IN  b.maxx < 0 \/ b.maxy < 0 \/ b.minx > 2 * DemCols \/ b.miny > 2 * DemRows

\* C29: when the ring sample is empty, the fallback sample holds only valid cells
\* of the raster inside the bounding box; for a bounding box wholly outside the
\* raster it is empty and the result is 0.0.
C29_FallbackInsideBox ==
    (pc = "estimated" /\ RingSample(dem, ThePolygon, BufferDistance) = {}) =>
        /\ \A c \in elevations :
              IsValidElevation(dem[c]) /\ InBufferedBox(ThePolygon, BufferDistance, c)
        /\ BoxOutsideRaster(ThePolygon, BufferDistance) =>
              elevations = {} /\ reference_elevation = Rat(0, 1)

\* ------------------------------------------ claims on degenerate footprints
\* C23: a footprint of area 0 has inside percentage 0 and is in 'illegal', not in
\* 'legal' and not in 'partial'.
C23_ZeroAreaIllegal ==
    classification_result # None =>
        \A k \in DOMAIN polygons :
            Area4(polygons[k]) = 0 =>
                /\ InsidePercentage(polygons[k], classification_result.authorized_boundary)
                       = Rat(0, 1)
                /\ Occurs(classification_result.illegal, polygons[k])
                /\ ~Occurs(classification_result.legal, polygons[k])
                /\ ~Occurs(PartialOf(classification_result), polygons[k])

\* C23 witness: a classification of a footprint of area 0 that lies within the
\* boundary.
C23_Witness ==
    /\ classification_result # None
    /\ \E k \in DOMAIN polygons :
          /\ Area4(polygons[k]) = 0
          /\ Within(polygons[k], classification_result.authorized_boundary)
          /\ Occurs(classification_result.illegal, polygons[k])

\* C24: for a footprint of positive area the inside percentage is in [0, 100];
\* the inside and outside areas of a partial record are >= 0 and add up to the
\* area of its footprint.
C24_InsideFractionRange ==
    classification_result # None =>
        LET cr == classification_result
        IN  /\ \A k \in DOMAIN polygons :
                  Area4(polygons[k]) > 0 =>
                      /\ RatLeq(Rat(0, 1), InsidePercentage(polygons[k], cr.authorized_boundary))
                      /\ RatLeq(InsidePercentage(polygons[k], cr.authorized_boundary),
                                Rat(100, 1))
            /\ \A k \in DOMAIN cr.partial :
                  LET r == cr.partial[k]
                  IN  /\ RatLeq(Rat(0, 1), r.inside_area)
                      /\ RatLeq(Rat(0, 1), r.outside_area)
                      /\ RatAdd(r.inside_area, r.outside_area) = Rat(Area4(r.polygon), 4)
                      /\ RatLeq(Rat(0, 1), r.inside_percentage)
                      /\ RatLeq(r.inside_percentage, Rat(100, 1))

\* C24 witness: a partial record with area inside and area outside the boundary,
\* next to a footprint wholly outside of it.
C24_Witness ==
    /\ classification_result # None
    /\ \E k \in DOMAIN classification_result.partial :
          /\ classification_result.partial[k].inside_area # Rat(0, 1)
          /\ classification_result.partial[k].outside_area # Rat(0, 1)
    /\ \E k \in DOMAIN polygons :
          Disjoint(polygons[k], classification_result.authorized_boundary)

\* -------------------------------------------------- claims on the job table
\* The threads started for the job j.
ThreadsOf(j) == {t \in DOMAIN threads : threads[t].job = j}

\* C25: run_analysis is started at most once for a job: only a start request that
\* finds the job 'uploaded' starts it, and every other start request for the job,
\* also one made before the thread has changed the status, is answered 400.
C25_StartedAtMostOnce ==
    \A j \in JobIds :
        /\ Cardinality(ThreadsOf(j)) <= 1
        /\ Cardinality({r \in RequestIds :
                           /\ start_requests[r].pc \in {"checked", "done"}
                           /\ start_requests[r].job = j
                           /\ start_requests[r].pc = "done" =>
                                 start_requests[r].response = "200 Analysis started"}) <= 1

\* C26: a job that is 'completed' has its 'results'.  No run of run_analysis gets
\* as far as 'completed' (DataLoader() raises first), so there is no state to
\* test the claim in: this is what the model can say about it.
C26_NoJobCompleted ==
    \A j \in JobIds : analysis_jobs[j].status # "completed"

\* C27: every run_analysis started ends with its job 'completed' or 'failed' (an
\* exception gives 'failed' and the error is recorded); a job that is 'completed'
\* or 'failed' keeps its status, and the progress of a job never decreases.
C27_EndsAndStaysEnded ==
    /\ \A t \in RequestIds :
          (Len(threads) >= t) ~>
              /\ Len(threads) >= t
              /\ threads[t].pc = "done"
              /\ analysis_jobs[threads[t].job].status \in {"completed", "failed"}
              /\ analysis_jobs[threads[t].job].status = "failed" =>
                     analysis_jobs[threads[t].job].error # "absent"
    /\ [][\A j \in JobIds :
             analysis_jobs[j].status \in {"completed", "failed"} =>
                 /\ analysis_jobs'[j].status = analysis_jobs[j].status
                 /\ analysis_jobs'[j].progress >= analysis_jobs[j].progress]_vars

====
